---- MODULE Spec2Model ----
(***************************************************************************)
(* Model of the columnar view engine of `group`: the materialized store    *)
(* (src/src/io/dataframe.rs), its filter and group views, and the          *)
(* drill-down navigator of the terminal UI (src/src/ui/app.rs, driven by   *)
(* the event loop of src/src/ui/mod.rs).                                   *)
(*                                                                         *)
(* Row indices, selections and view positions are 0-based as in the Rust   *)
(* code; TLA+ sequences are 1-based, so element i of a Vec v is v[i + 1].  *)
(***************************************************************************)
EXTENDS Integers, Sequences, FiniteSets, TLC

VARIABLES
    source_df,              \* the store handed to show_dataframe
    group_columns,          \* InputSpec::group_by
    show_in_grouped_mode,   \* InputSpec::show_in_grouped
    state,                  \* ViewModel::state, the stack of AppState (back = last)
    pc,                     \* the event loop: "running", "exited" or "panicked"
    call,                   \* the last command: its name, the stack before it, its result
    probe                   \* a direct call of a store operation: its input and its result

vars == <<source_df, group_columns, show_in_grouped_mode, state, pc, call, probe>>

\* ------------------------------------------------------------------ bounds

\* Largest number of records of a loaded input.
MaxRows == 3

\* Longest run of selection moves composed in one evaluation.
MaxMoves == 3

\* ColumnValue::None (an attribute missing from a record).
None == "None"

\* The cell values the stores are drawn from.
Values == {"a", None}

\* The attributes declared by the input spec, in declaration order.
Attrs == <<"name", "value">>

\* ------------------------------------------------------------- Vec helpers

Range(s) == {s[k] : k \in 1..Len(s)}

\* v[i] of a Rust Vec, 0-based.
At(v, i) == v[i + 1]

\* The Vec (0..n).collect().
Upto(n) == [k \in 1..n |-> k - 1]

\* Sequences over S of length lo..hi.
SeqsOf(S, lo, hi) == UNION {[1..n -> S] : n \in lo..hi}

\* --------------------------------------------------- MaterializedDataFrame

\* The raw text of record j (to_pretty_json of the record): one distinct
\* text per record position.
RawText(j) == 100 + j

\* MaterializedDataFrame::len
len(df) == Len(df.columns[1].values)

\* MaterializedDataFrame::column_names
column_names(df) == [k \in 1..Len(df.columns) |-> df.columns[k].name]

\* MaterializedDataFrame::row
row(df, index) == [k \in 1..Len(df.columns) |-> At(df.columns[k].values, index)]

\* MaterializedDataFrame::raw
raw(df, index) == At(df.raw_values, index)

\* Index<&String> for MaterializedDataFrame: the column stored under a name.
column(df, name) == df.columns[CHOOSE k \in 1..Len(df.columns) : df.columns[k].name = name]

\* Index<(&String, usize)> for MaterializedDataFrame
get(df, name, index) == At(column(df, name).values, index)

\* The smallest and the largest of a non-empty sequence of counts.
min(counts) == CHOOSE x \in Range(counts) : \A y \in Range(counts) : x <= y

max(counts) == CHOOSE x \in Range(counts) : \A y \in Range(counts) : x >= y

\* The outcome of a constructor call that panicked.
Panicked == [panic |-> TRUE, df |-> <<>>]

\* MaterializedDataFrame::new without the assertion on the row counts.
MaterializedDataFrame_new_unchecked_counts(columns, raw_values) ==
    IF Len(columns) = 0 THEN Panicked
    ELSE [panic |-> FALSE, df |-> [columns |-> columns, raw_values |-> raw_values]]

\* MaterializedDataFrame::new: three assertions, then the store. The second
\* assertion tests the list of per-column row counts, which has one entry
\* per column; raw_values is stored as given.
MaterializedDataFrame_new(columns, raw_values) ==
    IF Len(columns) = 0 THEN Panicked
    ELSE LET row_counts == [k \in 1..Len(columns) |-> Len(columns[k].values)] IN
         IF Len(row_counts) = 0 THEN Panicked
         ELSE IF min(row_counts) # max(row_counts) THEN Panicked
         ELSE [panic |-> FALSE, df |-> [columns |-> columns, raw_values |-> raw_values]]

\* The closure of filter returning at the first constrained column, whatever
\* the later ones hold.
filter_accepts_first(df, column_filters, i) ==
    LET constrained == {k \in 1..Len(df.columns) : df.columns[k].name \in DOMAIN column_filters} IN
    constrained # {} =>
        LET k == CHOOSE c \in constrained : \A d \in constrained : c <= d IN
        column_filters[df.columns[k].name] = At(df.columns[k].values, i)

\* The closure of filter looking every name of column_filters up in the
\* store: a name the store does not have is matched by no row.
filter_accepts_strict(df, column_filters, i) ==
    \A n \in DOMAIN column_filters :
        \E k \in 1..Len(df.columns) :
            df.columns[k].name = n /\ column_filters[n] = At(df.columns[k].values, i)

\* Whether row i passes every constraint of column_filters (the closure of
\* MaterializedDataFrame::filter): only the store's own columns are looked up.
filter_accepts(df, column_filters, i) ==
    \A k \in 1..Len(df.columns) :
        LET c == df.columns[k] IN
        c.name \in DOMAIN column_filters => column_filters[c.name] = At(c.values, i)

\* MaterializedDataFrame::filter: a DataFrameFilterView over the accepted rows.
filter(df, column_filters) ==
    [kind |-> "filter",
     idx  |-> SelectSeq(Upto(len(df)), LAMBDA i : filter_accepts(df, column_filters, i))]

\* The key tuple of row i: columns.iter().map(|name| self[name][i]).
key_tuple(df, columns, i) == [k \in 1..Len(columns) |-> get(df, columns[k], i)]

\* group_insert with the entry overwritten on a hit (insert instead of push).
group_insert_overwrite(acc, key, i) ==
    IF \E g \in 1..Len(acc) : acc[g].key = key
    THEN [g \in 1..Len(acc) |->
            IF acc[g].key = key THEN [acc[g] EXCEPT !.rows = <<i>>] ELSE acc[g]]
    ELSE Append(acc, [key |-> key, rows |-> <<i>>])

\* group_insert with the entry moved to the end of the map on a hit.
group_insert_move_to_end(acc, key, i) ==
    IF \E g \in 1..Len(acc) : acc[g].key = key
    THEN LET hit == CHOOSE g \in 1..Len(acc) : acc[g].key = key IN
         Append(SelectSeq(acc, LAMBDA e : e.key # key),
                [acc[hit] EXCEPT !.rows = Append(@, i)])
    ELSE Append(acc, [key |-> key, rows |-> <<i>>])

\* One step of the loop of group_by: push i to the group of its key tuple,
\* or insert a new group at the end (an IndexMap keeps insertion order).
\* `acc` is the IndexMap as a sequence of [key, rows] entries.
group_insert(acc, key, i) ==
    IF \E g \in 1..Len(acc) : acc[g].key = key
    THEN [g \in 1..Len(acc) |->
            IF acc[g].key = key THEN [acc[g] EXCEPT !.rows = Append(@, i)] ELSE acc[g]]
    ELSE Append(acc, [key |-> key, rows |-> <<i>>])

RECURSIVE group_scan(_, _, _)
\* The IndexMap after the loop `for i in 0..self.len()` has run n iterations.
group_scan(df, columns, n) ==
    IF n = 0 THEN <<>>
    ELSE group_insert(group_scan(df, columns, n - 1), key_tuple(df, columns, n - 1), n - 1)

\* MaterializedDataFrame::group_by: a DataFrameGroupView.
group_by(df, columns, extra_columns) ==
    LET row_indices == group_scan(df, columns, len(df)) IN
    [kind          |-> "group",
     group_idx     |-> [g \in 1..Len(row_indices) |-> row_indices[g].rows],
     group_columns |-> columns,
     extra_columns |-> extra_columns]

\* ------------------------------------------------------ DataFrame for views

\* DataFrameFilterView::len / DataFrameGroupView::len (dyn DataFrame)
view_len(view) ==
    IF view.kind = "filter" THEN Len(view.idx) ELSE Len(view.group_idx)

\* view_source_index with the position taken for the source row in both views.
view_source_index_position(view, index) == index

\* A filter view that reads the source at the view position itself.
view_source_index_direct(view, index) ==
    IF view.kind = "filter" THEN index ELSE At(At(view.group_idx, index), 0)

\* The source row a view position stands for: idx[index] for a filter view,
\* group_idx[index][0] for a group view.
view_source_index(view, index) ==
    IF view.kind = "filter" THEN At(view.idx, index) ELSE At(At(view.group_idx, index), 0)

\* DataFrameFilterView::column_names / DataFrameGroupView::column_names
view_column_names(df, view) ==
    IF view.kind = "filter" THEN column_names(df)
    ELSE view.group_columns \o view.extra_columns

\* DataFrameFilterView::row / DataFrameGroupView::row: the values of every
\* column of the source, in the source's declaration order.
view_row(df, view, index) ==
    [k \in 1..Len(df.columns) |-> At(df.columns[k].values, view_source_index(view, index))]

\* DataFrameFilterView::raw / DataFrameGroupView::raw
view_raw(df, view, index) == raw(df, view_source_index(view, index))

\* Index<(&String, usize)> for DataFrameFilterView / DataFrameGroupView
view_get(df, view, name, index) == At(column(df, name).values, view_source_index(view, index))

\* ------------------------------------------------------- table::ViewModel

\* table::ViewModel::new: the view and selection 0.
table_new(df) == [df |-> df, selected |-> 0]

\* table::ViewModel::selected_row: the row of the view at the selection.
selected_row(source, tvm) == view_row(source, tvm.df, tvm.selected)

\* move_selected that returns on an empty view and keeps the selection.
move_selected_keeps_on_empty(tvm, up) ==
    LET n == view_len(tvm.df) IN
    [panic |-> FALSE,
     tvm   |-> IF n = 0 THEN tvm
               ELSE [tvm EXCEPT !.selected = (tvm.selected + (IF up THEN n - 1 ELSE 1)) % n]]

\* move_selected that stops at the first row instead of wrapping upwards.
move_selected_no_wrap(tvm, up) ==
    LET n == view_len(tvm.df) IN
    IF n = 0
    THEN [panic |-> TRUE, tvm |-> tvm]
    ELSE [panic |-> FALSE,
          tvm   |-> [tvm EXCEPT !.selected =
                        IF up THEN (IF @ = 0 THEN 0 ELSE @ - 1) ELSE (@ + 1) % n]]

\* Table::move_selected. With len = 0 the usize expression len - 1 overflows
\* (a panic in a debug build) and `% len` divides by zero (a panic in every
\* build), in both directions: the call aborts.
move_selected(tvm, up) ==
    LET n == view_len(tvm.df) IN
    IF n = 0
    THEN [panic |-> TRUE, tvm |-> tvm]
    ELSE [panic |-> FALSE,
          tvm   |-> [tvm EXCEPT !.selected = (tvm.selected + (IF up THEN n - 1 ELSE 1)) % n]]

\* ---------------------------------------------------------- app::ViewModel

\* An AppState: the table view model and the AppMode (Grouped, Filtered(focused)).
AppState(tvm, mode, focused) == [table_view_model |-> tvm, mode |-> mode, focused |-> focused]

\* get_current_state: the back of the stack.
get_current_state(st) == st[Len(st)]

\* ViewModel::new: one Grouped state over group_by of the source.
ViewModel_new(source, columns, extra_columns) ==
    <<AppState(table_new(group_by(source, columns, extra_columns)), "Grouped", FALSE)>>

\* The HashMap collected in focus from column_names().enumerate() zipped with
\* the selected row: a later entry of a repeated name replaces the earlier one.
focus_filter(names, selected) ==
    [n \in Range(names) |->
        selected[CHOOSE k \in 1..Len(names) :
                    names[k] = n /\ \A j \in 1..Len(names) : names[j] = n => j <= k]]

\* focus whose Filtered arm sets the flag instead of toggling it.
focus_sets_focused(source, st) ==
    LET cur == get_current_state(st)
        tvm == cur.table_view_model
    IN  IF cur.mode = "Grouped"
        THEN IF tvm.selected >= view_len(tvm.df)
                \/ Len(view_column_names(source, tvm.df)) > Len(source.columns)
             THEN [panic |-> TRUE, state |-> st]
             ELSE LET column_filters ==
                          focus_filter(view_column_names(source, tvm.df), selected_row(source, tvm))
                  IN  [panic |-> FALSE,
                       state |-> Append(st, AppState(table_new(filter(source, column_filters)),
                                                     "Filtered", FALSE))]
        ELSE [panic |-> FALSE, state |-> [st EXCEPT ![Len(st)].focused = TRUE]]

\* focus without the match on the mode: a Filtered state pushes a further
\* Filtered state over its own view.
focus_nests(source, st) ==
    LET cur == get_current_state(st)
        tvm == cur.table_view_model
    IN  IF cur.mode = "Grouped"
        THEN IF tvm.selected >= view_len(tvm.df)
                \/ Len(view_column_names(source, tvm.df)) > Len(source.columns)
             THEN [panic |-> TRUE, state |-> st]
             ELSE LET column_filters ==
                          focus_filter(view_column_names(source, tvm.df), selected_row(source, tvm))
                  IN  [panic |-> FALSE,
                       state |-> Append(st, AppState(table_new(filter(source, column_filters)),
                                                     "Filtered", FALSE))]
        ELSE [panic |-> FALSE, state |-> Append(st, AppState(table_new(tvm.df), "Filtered", FALSE))]

\* ViewModel::focus. Reading the selected row of a view without rows, and
\* selected[i] past the end of the row, are index panics.
focus(source, st) ==
    LET cur == get_current_state(st)
        tvm == cur.table_view_model
    IN  IF cur.mode = "Grouped"
        THEN IF tvm.selected >= view_len(tvm.df)
                \/ Len(view_column_names(source, tvm.df)) > Len(source.columns)
             THEN [panic |-> TRUE, state |-> st]
             ELSE LET column_filters ==
                          focus_filter(view_column_names(source, tvm.df), selected_row(source, tvm))
                  IN  [panic |-> FALSE,
                       state |-> Append(st, AppState(table_new(filter(source, column_filters)),
                                                     "Filtered", FALSE))]
        ELSE [panic |-> FALSE, state |-> [st EXCEPT ![Len(st)].focused = ~@]]

\* back that pops a Filtered state without looking at its focused flag.
back_pops_focused(st) ==
    LET cur == get_current_state(st) IN
    IF cur.mode = "Grouped"
    THEN [handled |-> FALSE, state |-> st]
    ELSE [handled |-> TRUE, state |-> SubSeq(st, 1, Len(st) - 1)]

\* back that returns false after popping a Filtered state.
back_unhandled_pop(st) ==
    LET cur == get_current_state(st) IN
    IF cur.mode = "Grouped"
    THEN [handled |-> FALSE, state |-> st]
    ELSE IF cur.focused
         THEN [handled |-> TRUE, state |-> [st EXCEPT ![Len(st)].focused = FALSE]]
         ELSE [handled |-> FALSE, state |-> SubSeq(st, 1, Len(st) - 1)]

\* back without the Grouped arm: the unfocused current state is popped
\* whatever its mode.
back_pops_root(st) ==
    LET cur == get_current_state(st) IN
    IF cur.focused
    THEN [handled |-> TRUE, state |-> [st EXCEPT ![Len(st)].focused = FALSE]]
    ELSE [handled |-> cur.mode # "Grouped", state |-> SubSeq(st, 1, Len(st) - 1)]

\* back that reports an unfocused Filtered state handled and keeps it.
back_keeps_state(st) ==
    LET cur == get_current_state(st) IN
    IF cur.mode = "Grouped"
    THEN [handled |-> FALSE, state |-> st]
    ELSE IF cur.focused
         THEN [handled |-> TRUE, state |-> [st EXCEPT ![Len(st)].focused = FALSE]]
         ELSE [handled |-> TRUE, state |-> st]

\* ViewModel::back: the new stack and the returned bool.
back(st) ==
    LET cur == get_current_state(st) IN
    IF cur.mode = "Grouped"
    THEN [handled |-> FALSE, state |-> st]
    ELSE IF cur.focused
         THEN [handled |-> TRUE, state |-> [st EXCEPT ![Len(st)].focused = FALSE]]
         ELSE [handled |-> TRUE, state |-> SubSeq(st, 1, Len(st) - 1)]

\* move_selected on the front of the stack instead of its back.
ViewModel_move_selected_front(st, up) ==
    LET r == move_selected(st[1].table_view_model, up) IN
    [panic |-> r.panic, state |-> [st EXCEPT ![1].table_view_model = r.tvm]]

\* ViewModel::move_selected: delegates to the current state's table view model.
ViewModel_move_selected(st, up) ==
    LET r == move_selected(get_current_state(st).table_view_model, up) IN
    [panic |-> r.panic, state |-> [st EXCEPT ![Len(st)].table_view_model = r.tvm]]

\* View::render draws the detail card of a focused Filtered state from
\* df.raw(selected): an index panic when the view has no such row.
render_panics(source, st) ==
    LET cur == get_current_state(st) IN
    /\ cur.mode = "Filtered"
    /\ cur.focused
    /\ cur.table_view_model.selected >= view_len(cur.table_view_model.df)

\* ------------------------------------------------------------- the session

\* What read_dataframe extracts from n records: one column of n values per
\* declared attribute and one raw text per record.
Extracted ==
    UNION {{[columns    |-> [k \in 1..Len(Attrs) |-> [name |-> Attrs[k], values |-> vals[k]]],
             raw_values |-> [j \in 1..n |-> RawText(j - 1)]] :
                vals \in [1..Len(Attrs) -> [1..n -> Values]]} : n \in 0..MaxRows}

\* The stores read_dataframe can hand over: what MaterializedDataFrame::new
\* returns for the extracted columns and raw texts.
Stores ==
    {MaterializedDataFrame_new(x.columns, x.raw_values).df :
        x \in {y \in Extracted : ~MaterializedDataFrame_new(y.columns, y.raw_values).panic}}

\* The group_by lists InputSpec::validate accepts: names of declared attributes.
GroupColumnChoices == {<<>>, <<"name">>, <<"value">>, <<"name", "value">>, <<"value", "name">>}

\* The show_in_grouped lists InputSpec::validate accepts.
ExtraColumnChoices == {<<>>, <<"name">>, <<"value">>}

\* The specs the sessions are run with: an attribute is grouped by or shown
\* in grouped mode, not both.
InputSpecs ==
    {s \in [group_by : GroupColumnChoices, show_in_grouped : ExtraColumnChoices] :
        Range(s.group_by) \cap Range(s.show_in_grouped) = {}}

NoProbe == [op |-> "none", input |-> <<>>, done |-> FALSE, output |-> <<>>]

NoCall == [op |-> "new", up |-> FALSE, before |-> <<>>, handled |-> FALSE]

\* show_dataframe up to its first draw: the view model over the loaded store.
Init ==
    /\ source_df \in Stores
    /\ \E s \in InputSpecs :
            /\ group_columns = s.group_by
            /\ show_in_grouped_mode = s.show_in_grouped
    /\ state = ViewModel_new(source_df, group_columns, show_in_grouped_mode)
    /\ pc = "running"
    /\ call = [NoCall EXCEPT !.before = state]
    /\ probe = NoProbe

\* The loop after a command that returned: the next draw runs View::render.
after_command(st, panic) ==
    IF panic \/ render_panics(source_df, st) THEN "panicked" ELSE "running"

\* Up / 'w' / ScrollUp and Down / 's' / ScrollDown.
MoveSelected(up) ==
    /\ pc = "running"
    /\ LET r == ViewModel_move_selected(state, up) IN
        /\ state' = r.state
        /\ pc' = after_command(r.state, r.panic)
        /\ call' = [op |-> "move_selected", up |-> up, before |-> state, handled |-> FALSE]
    /\ UNCHANGED <<source_df, group_columns, show_in_grouped_mode, probe>>

MoveUp == MoveSelected(TRUE)

MoveDown == MoveSelected(FALSE)

\* Enter.
Focus ==
    /\ pc = "running"
    /\ LET r == focus(source_df, state) IN
        /\ state' = r.state
        /\ pc' = after_command(r.state, r.panic)
        /\ call' = [op |-> "focus", up |-> FALSE, before |-> state, handled |-> FALSE]
    /\ UNCHANGED <<source_df, group_columns, show_in_grouped_mode, probe>>

\* 'q' / Esc: the loop breaks when back() returns false.
Back ==
    /\ pc = "running"
    /\ LET r == back(state) IN
        /\ state' = r.state
        /\ pc' = IF r.handled THEN after_command(r.state, FALSE) ELSE "exited"
        /\ call' = [op |-> "back", up |-> FALSE, before |-> state, handled |-> r.handled]
    /\ UNCHANGED <<source_df, group_columns, show_in_grouped_mode, probe>>

\* Ctrl-C: the loop breaks.
Quit ==
    /\ pc = "running"
    /\ pc' = "exited"
    /\ call' = [op |-> "quit", up |-> FALSE, before |-> state, handled |-> FALSE]
    /\ UNCHANGED <<source_df, group_columns, show_in_grouped_mode, state, probe>>

Next == MoveUp \/ MoveDown \/ Focus \/ Back \/ Quit

Spec == Init /\ [][Next]_vars

\* ------------------------------------------------- direct calls of filter

\* A column name no store declares.
UnknownName == "other"

\* The predicates handed to filter: a HashMap from some names to values.
Predicates(names) == UNION {[d -> Values] : d \in SUBSET names}

\* A store with at least one column and a predicate over its columns and a
\* name it does not have; nothing has been called yet.
InitFilter ==
    /\ source_df \in Stores
    /\ group_columns = <<>>
    /\ show_in_grouped_mode = <<>>
    /\ state = <<>>
    /\ pc = "probe"
    /\ call = NoCall
    /\ \E p \in Predicates(Range(Attrs) \cup {UnknownName}) :
            probe = [op |-> "filter", input |-> p, done |-> FALSE, output |-> <<>>]

\* source_df.filter(&column_filters)
CallFilter ==
    /\ probe.op = "filter"
    /\ ~probe.done
    /\ probe' = [probe EXCEPT !.done = TRUE, !.output = filter(source_df, probe.input)]
    /\ UNCHANGED <<source_df, group_columns, show_in_grouped_mode, state, pc, call>>

NextFilter == CallFilter

SpecFilter == InitFilter /\ [][NextFilter]_vars

\* ------------------------------------------------------------ the navigator

\* The frame a command ran on, and the frame it left on top.
Before == get_current_state(call.before)

Current == get_current_state(state)

\* The members of the group selected in a Grouped frame.
SelectedGroup(frame) ==
    At(frame.table_view_model.df.group_idx, frame.table_view_model.selected)

\* C1: over a store with at least one row, focus() on the root Grouped frame
\* with selection s returns and pushes exactly one Filtered frame, unfocused,
\* with selection 0, whose row indices are the members of group s in their
\* original order (its predicate constrains the key columns only).
C1_FocusPushesGroupMembers ==
    (call.op = "focus" /\ Len(call.before) = 1 /\ len(source_df) >= 1) =>
        /\ pc = "running"
        /\ state = Append(call.before,
                          AppState([df       |-> [kind |-> "filter", idx |-> SelectedGroup(Before)],
                                    selected |-> 0],
                                   "Filtered", FALSE))

\* C2: after any sequence of commands the stack is non-empty and its bottom
\* frame is the Grouped frame created at construction, over the same groups.
C2_BottomFrameIsRoot ==
    /\ Len(state) >= 1
    /\ state[1].mode = "Grouped"
    /\ ~state[1].focused
    /\ state[1].table_view_model.df = group_by(source_df, group_columns, show_in_grouped_mode)

\* back() has popped the Filtered frame and the root is on top again.
C2_Witness ==
    /\ call.op = "back"
    /\ Len(call.before) = 2
    /\ Len(state) = 1

RECURSIVE moves(_, _)
\* The stack after the selection moves ms (TRUE = up), stopping at a panic.
moves(st, ms) ==
    IF ms = <<>> THEN [panic |-> FALSE, state |-> st]
    ELSE LET r == ViewModel_move_selected(st, Head(ms)) IN
         IF r.panic THEN r ELSE moves(r.state, Tail(ms))

\* C3: from the root Grouped frame at any selection s, focus(), then any
\* moves in the pushed frame, then back() on that unfocused frame: back
\* reports handled and leaves exactly the stack focus() started from (the
\* root, its groups and its selection s); and every back() that ran on an
\* unfocused Filtered frame reported handled and popped just that frame.
C3_FocusMovesBackRoundTrip ==
    /\ (pc = "running" /\ Len(state) = 1) =>
            LET f == focus(source_df, state) IN
            ~f.panic =>
                \A ms \in SeqsOf(BOOLEAN, 0, MaxMoves) :
                    LET m == moves(f.state, ms) IN
                    ~m.panic => back(m.state) = [handled |-> TRUE, state |-> state]
    /\ (call.op = "back" /\ Before.mode = "Filtered" /\ ~Before.focused) =>
            /\ call.handled
            /\ state = SubSeq(call.before, 1, Len(call.before) - 1)
    /\ (call.op \in {"focus", "move_selected", "back"} /\ Len(call.before) + Len(state) > 2) =>
            state[1] = call.before[1]

\* back() has popped a frame whose selection had been moved, returning to a
\* root whose selection is not the first group.
C3_Witness ==
    /\ call.op = "back"
    /\ call.handled
    /\ Len(call.before) = 2
    /\ ~Before.focused
    /\ Before.table_view_model.selected > 0
    /\ Len(state) = 1
    /\ Current.table_view_model.selected > 0

\* C4: back() on a focused Filtered frame reports handled and only clears
\* the flag: the frame stays, with its selection and its rows.
C4_BackUnfocusesFirst ==
    (call.op = "back" /\ Before.mode = "Filtered" /\ Before.focused) =>
        /\ call.handled
        /\ state = [call.before EXCEPT ![Len(call.before)].focused = FALSE]
        /\ Current.table_view_model = Before.table_view_model

\* back() ran on a focused frame whose selection is not the first row.
C4_Witness ==
    /\ call.op = "back"
    /\ Before.mode = "Filtered"
    /\ Before.focused
    /\ Before.table_view_model.selected > 0

\* C5: back() on the Grouped frame reports not handled and changes nothing,
\* and back() reports not handled only there.
C5_BackUnhandledOnlyAtRoot ==
    call.op = "back" =>
        /\ Before.mode = "Grouped" => (~call.handled /\ state = call.before)
        /\ ~call.handled => Before.mode = "Grouped"

\* back() ran on the root with a moved selection, after a frame was pushed
\* and popped or not.
C5_Witness ==
    /\ call.op = "back"
    /\ ~call.handled
    /\ Before.mode = "Grouped"
    /\ Before.table_view_model.selected > 0

\* C6: focus() on a Filtered frame only toggles its focused flag (no push, same
\* selection, same rows), and a second focus() restores the stack exactly.
C6_FocusTogglesFiltered ==
    /\ (call.op = "focus" /\ Before.mode = "Filtered") =>
            state = [call.before EXCEPT ![Len(call.before)].focused = ~Before.focused]
    /\ Current.mode = "Filtered" =>
            LET once  == focus(source_df, state)
                twice == focus(source_df, once.state)
            IN  /\ ~once.panic
                /\ ~twice.panic
                /\ once.state # state
                /\ Len(once.state) = Len(state)
                /\ twice.state = state

\* The second of two focus() calls on a frame with a moved selection.
C6_Witness ==
    /\ call.op = "focus"
    /\ Before.mode = "Filtered"
    /\ Before.focused
    /\ ~Current.focused
    /\ Current.table_view_model.selected > 0

\* C7: move_selected on a frame of len >= 1 rows returns, sets the selection
\* to (selection + len - 1) mod len for up and (selection + 1) mod len for
\* down, which is the previous or next row with wrap-around at both ends,
\* inside [0, len), and changes nothing else on the stack.
C7_MoveSelectedWraps ==
    (call.op = "move_selected" /\ view_len(Before.table_view_model.df) >= 1) =>
        LET n == view_len(Before.table_view_model.df)
            s == Before.table_view_model.selected
            t == Current.table_view_model.selected
        IN  /\ pc = "running"
            /\ state = [call.before EXCEPT ![Len(call.before)].table_view_model.selected = t]
            /\ t \in 0..(n - 1)
            /\ t = (s + (IF call.up THEN n - 1 ELSE 1)) % n
            /\ call.up => t = (IF s = 0 THEN n - 1 ELSE s - 1)
            /\ ~call.up => t = (IF s = n - 1 THEN 0 ELSE s + 1)

\* An upward move wrapped from row 0 to the last row of a pushed frame.
C7_Witness ==
    /\ call.op = "move_selected"
    /\ call.up
    /\ Len(state) = 2
    /\ view_len(Before.table_view_model.df) >= 2
    /\ Before.table_view_model.selected = 0
    /\ Current.table_view_model.selected = view_len(Current.table_view_model.df) - 1

\* C8: move_selected on a frame without rows aborts in both directions: no
\* selection is produced and the stack is as it was.
C8_MoveSelectedOnEmptyAborts ==
    /\ (call.op = "move_selected" /\ view_len(Before.table_view_model.df) = 0) =>
            (pc = "panicked" /\ state = call.before)
    /\ view_len(Current.table_view_model.df) = 0 =>
            \A up \in BOOLEAN : move_selected(Current.table_view_model, up).panic

\* A downward move ran on a pushed frame without rows.
C8_Witness ==
    /\ call.op = "move_selected"
    /\ ~call.up
    /\ Len(call.before) = 2
    /\ view_len(Before.table_view_model.df) = 0
    /\ pc = "panicked"

\* ------------------------------------------------------------------ filter

\* The column names of the store.
StoreNames == Range(column_names(source_df))

\* Whether row i of the store holds every (name, value) pair of predicate p.
Satisfies(p, i) == \A n \in DOMAIN p : get(source_df, n, i) = p[n]

\* C9: for a predicate over columns of the store, filter returns the strictly
\* increasing list of exactly the row indices that hold every pair of the
\* predicate, so no more indices than the store has rows.
C9_FilterSelectsMatchingRows ==
    (probe.op = "filter" /\ probe.done /\ DOMAIN probe.input \subseteq StoreNames) =>
        LET idx == probe.output.idx IN
        /\ \A k \in 1..(Len(idx) - 1) : idx[k] < idx[k + 1]
        /\ Range(idx) = {i \in 0..(len(source_df) - 1) : Satisfies(probe.input, i)}
        /\ Len(idx) <= len(source_df)

\* A predicate on both columns kept the first and the last of three rows.
C9_Witness ==
    /\ probe.op = "filter"
    /\ probe.done
    /\ DOMAIN probe.input = StoreNames
    /\ probe.output.idx = <<0, 2>>

\* C10: the accessors of a filter view go through its index list: position i
\* gives the row, raw text and cells of source row idx[i], the column names
\* are the store's, and the view of the empty predicate has the store's length
\* and its rows and raw texts at the same positions.
C10_FilterViewDelegates ==
    (probe.op = "filter" /\ probe.done) =>
        LET view == probe.output IN
        /\ view_column_names(source_df, view) = column_names(source_df)
        /\ \A i \in 0..(view_len(view) - 1) :
                /\ view_row(source_df, view, i) = row(source_df, At(view.idx, i))
                /\ view_raw(source_df, view, i) = raw(source_df, At(view.idx, i))
                /\ \A name \in StoreNames :
                        view_get(source_df, view, name, i) = get(source_df, name, At(view.idx, i))
        /\ DOMAIN probe.input = {} =>
                /\ view_len(view) = len(source_df)
                /\ \A i \in 0..(len(source_df) - 1) :
                        /\ view_row(source_df, view, i) = row(source_df, i)
                        /\ view_raw(source_df, view, i) = raw(source_df, i)

\* A view whose first position stands for a later row of the store.
C10_Witness ==
    /\ probe.op = "filter"
    /\ probe.done
    /\ Len(probe.output.idx) = 2
    /\ probe.output.idx[1] = 1
    /\ view_raw(source_df, probe.output, 0) = RawText(1)

\* ------------------------------------------------ direct calls of group_by

\* A store and the key and extra column lists of an accepted InputSpec;
\* nothing has been called yet.
InitGroup ==
    /\ source_df \in Stores
    /\ \E s \in InputSpecs :
            /\ group_columns = s.group_by
            /\ show_in_grouped_mode = s.show_in_grouped
    /\ state = <<>>
    /\ pc = "probe"
    /\ call = NoCall
    /\ probe = [op |-> "group_by", input |-> <<>>, done |-> FALSE, output |-> <<>>]

\* source_df.group_by(&group_columns, &show_in_grouped_mode)
CallGroupBy ==
    /\ probe.op = "group_by"
    /\ ~probe.done
    /\ probe' = [probe EXCEPT !.done = TRUE,
                              !.output = group_by(source_df, group_columns, show_in_grouped_mode)]
    /\ UNCHANGED <<source_df, group_columns, show_in_grouped_mode, state, pc, call>>

NextGroup == CallGroupBy

SpecGroup == InitGroup /\ [][NextGroup]_vars

\* The view group_by returned.
Grouped == probe.output

\* True once group_by has returned.
GroupByDone == probe.op = "group_by" /\ probe.done

\* The members of group g (1-based position in group_idx).
Members(g) == Range(Grouped.group_idx[g])

\* The key tuple of store row i, read column by column.
RefKey(i) == [k \in 1..Len(group_columns) |-> At(column(source_df, group_columns[k]).values, i)]

\* The lowest member of group g.
Lowest(g) == CHOOSE i \in Members(g) : \A j \in Members(g) : i <= j

\* C11: group_by partitions the store: every group is non-empty and the
\* groups taken together hold every row index 0..len-1 exactly once.
C11_GroupByPartitions ==
    GroupByDone =>
        LET G == Grouped.group_idx IN
        /\ \A g \in 1..Len(G) : Len(G[g]) >= 1
        /\ \A i \in 0..(len(source_df) - 1) :
              Cardinality({<<g, k>> \in (1..Len(G)) \X (1..len(source_df)) :
                              k <= Len(G[g]) /\ G[g][k] = i}) = 1
        /\ \A g \in 1..Len(G) : Members(g) \subseteq 0..(len(source_df) - 1)

\* group_by has split a store with a repeated key into two groups or more.
C11_Witness ==
    /\ GroupByDone
    /\ Len(Grouped.group_idx) >= 2
    /\ \E g \in 1..Len(Grouped.group_idx) : Len(Grouped.group_idx[g]) >= 2

\* C12: group_by is the reference grouping: two rows share a group exactly
\* when their key tuples are equal, groups come in the order of their first
\* member, members are increasing, and row, raw and the (name, index)
\* accessor of group g read the lowest member of the group.
C12_GroupByIsReferenceGrouping ==
    GroupByDone =>
        LET G == Grouped.group_idx IN
        /\ \A i, j \in 0..(len(source_df) - 1) :
              (\E g \in 1..Len(G) : {i, j} \subseteq Members(g)) <=> (RefKey(i) = RefKey(j))
        /\ \A g, h \in 1..Len(G) : g < h => G[g][1] < G[h][1]
        /\ \A g \in 1..Len(G) : \A k \in 1..(Len(G[g]) - 1) : G[g][k] < G[g][k + 1]
        /\ \A g \in 1..Len(G) :
              /\ view_row(source_df, Grouped, g - 1) = row(source_df, Lowest(g))
              /\ view_raw(source_df, Grouped, g - 1) = raw(source_df, Lowest(g))
              /\ \A n \in Range(column_names(source_df)) :
                    view_get(source_df, Grouped, n, g - 1) = get(source_df, n, Lowest(g))

\* A later group starts before an earlier group ends: the groups interleave.
C12_Witness ==
    /\ GroupByDone
    /\ \E g, h \in 1..Len(Grouped.group_idx) :
          /\ g < h
          /\ Len(Grouped.group_idx[g]) >= 2
          /\ Grouped.group_idx[h][1] < Grouped.group_idx[g][Len(Grouped.group_idx[g])]

\* The store built from the representative rows of a group view, one row and
\* one raw text per group.
RepresentativeStore(df, view) ==
    [columns    |-> [k \in 1..Len(df.columns) |->
                        [name   |-> df.columns[k].name,
                         values |-> [g \in 1..view_len(view) |-> view_row(df, view, g - 1)[k]]]],
     raw_values |-> [g \in 1..view_len(view) |-> view_raw(df, view, g - 1)]]

\* C13: grouping the representative rows by the same keys gives one group
\* of one row per original group, in the same order.
C13_RegroupIsStable ==
    GroupByDone =>
        group_by(RepresentativeStore(source_df, Grouped), group_columns,
                 show_in_grouped_mode).group_idx
            = [g \in 1..Len(Grouped.group_idx) |-> <<g - 1>>]

\* The regrouped store is smaller than the original: some group had two
\* members, and there are two groups whose first rows are not rows 0 and 1.
C13_Witness ==
    /\ GroupByDone
    /\ Len(Grouped.group_idx) >= 2
    /\ Grouped.group_idx[1] = <<0, 1>>
    /\ group_columns # <<>>

\* ------------------------------------------------------------ the timeline

\* const SLOTS_PER_UNIT: u16 = 8
SLOTS_PER_UNIT == 8

\* ColumnValue::DateTime(ts), ts in ticks of the clock's resolution.
DateTime(ts) == [kind |-> "DateTime", ts |-> ts]

\* ColumnValue::None in a column of timestamps.
NoneValue == [kind |-> "None"]

\* The name of the timeline column.
TimeColumn == "time"

\* timestamps_of with the epoch taken for a value that is no timestamp.
timestamps_of_or_epoch(values) ==
    [k \in 1..Len(values) |-> IF values[k].kind = "DateTime" THEN values[k].ts ELSE 0]

\* filter_map(|c| if let ColumnValue::DateTime(ts) = c { Some(ts) } else { None })
timestamps_of(values) ==
    LET kept == SelectSeq(values, LAMBDA c : c.kind = "DateTime") IN
    [k \in 1..Len(kept) |-> kept[k].ts]

\* create_timeline_grid with a step of one tick at least.
create_timeline_grid_min_step(values, resolution) ==
    LET ts == timestamps_of(values) IN
    IF Len(ts) = 0 THEN [panic |-> FALSE, grid |-> <<>>]
    ELSE IF resolution = 1 THEN [panic |-> TRUE, grid |-> <<>>]
    ELSE LET quotient == (max(ts) - min(ts)) \div (resolution - 1)
             delta    == IF quotient = 0 THEN 1 ELSE quotient
         IN  [panic |-> FALSE, grid |-> [k \in 1..resolution |-> min(ts) + (k - 1) * delta]]

\* create_timeline_grid: no instant without a timestamp; else `resolution`
\* instants from the minimum in steps of delta, the span divided by
\* resolution - 1 with the quotient truncated to a whole tick. A division by
\* zero (resolution 1) panics.
create_timeline_grid(values, resolution) ==
    LET ts == timestamps_of(values) IN
    IF Len(ts) = 0 THEN [panic |-> FALSE, grid |-> <<>>]
    ELSE IF resolution = 1 THEN [panic |-> TRUE, grid |-> <<>>]
    ELSE LET delta == (max(ts) - min(ts)) \div (resolution - 1) IN
         [panic |-> FALSE, grid |-> [k \in 1..resolution |-> min(ts) + (k - 1) * delta]]

\* slot_index taking the first grid point that is not after ts.
slot_index_first(grid, ts) ==
    LET hits == {i \in 0..(Len(grid) - 1) : At(grid, i) <= ts} IN
    IF hits = {} THEN 0 ELSE CHOOSE i \in hits : \A j \in hits : i <= j

\* grid.iter().enumerate().filter(|(_, t)| **t <= ts).map(|(i, _)| i).last().unwrap_or(0)
slot_index(grid, ts) ==
    LET hits == {i \in 0..(Len(grid) - 1) : At(grid, i) <= ts} IN
    IF hits = {} THEN 0 ELSE CHOOSE i \in hits : \A j \in hits : i >= j

\* The character of a resolution unit whose highest occupied sub-slot is
\* the max_idx-th (0: none), named by its code point.
slot_char(max_idx) ==
    CASE max_idx = 0 -> " "
      [] max_idx = 1 -> "U+258F"
      [] max_idx = 2 -> "U+258E"
      [] max_idx = 3 -> "U+258D"
      [] max_idx = 4 -> "U+258C"
      [] max_idx = 5 -> "U+258B"
      [] max_idx = 6 -> "U+258A"
      [] max_idx = 7 -> "U+2589"
      [] OTHER       -> "U+2588"

\* max_idx counting the occupied sub-slots of the unit.
max_idx_count(slots, i) ==
    Cardinality({j \in 0..(SLOTS_PER_UNIT - 1) : At(slots, i * SLOTS_PER_UNIT + j)})

\* (0..SLOTS_PER_UNIT).filter(|j| slots[i * SLOTS_PER_UNIT + j]).map(|j| j + 1).max().unwrap_or(0)
max_idx(slots, i) ==
    LET occupied == {j + 1 : j \in {x \in 0..(SLOTS_PER_UNIT - 1) : At(slots, i * SLOTS_PER_UNIT + x)}} IN
    IF occupied = {} THEN 0 ELSE CHOOSE j \in occupied : \A x \in occupied : j >= x

\* DataFrameGroupView::timeline: the empty string without a column "time",
\* else one character per resolution unit.
timeline(df, view, index, resolution) ==
    IF TimeColumn \notin Range(column_names(df)) THEN <<>>
    ELSE LET time_column == column(df, TimeColumn)
             slot_count  == resolution * SLOTS_PER_UNIT
             grid        == create_timeline_grid(time_column.values, slot_count).grid
             members     == At(view.group_idx, index)
             timestamps  == timestamps_of([k \in 1..Len(members) |-> At(time_column.values, members[k])])
             marked      == {slot_index(grid, timestamps[k]) : k \in 1..Len(timestamps)}
             slots       == [k \in 1..slot_count |-> (k - 1) \in marked]
         IN  [i \in 1..resolution |-> slot_char(max_idx(slots, i - 1))]

\* DataFrameGroupView::group_indices: the member rows of group `index`.
group_indices(view, index) == At(view.group_idx, index)

\* timeline::create_timeline_column: one string per group, empty without
\* the column, else a full block for every grid slot one of the group's
\* timestamps falls in and a blank for the others.
create_timeline_column(df, view, column_name, resolution) ==
    IF column_name \notin Range(column_names(df))
    THEN [panic |-> FALSE, texts |-> [g \in 1..view_len(view) |-> <<>>]]
    ELSE LET time_column == column(df, column_name)
             made        == create_timeline_grid(time_column.values, resolution)
             stamps(i)   == LET members == group_indices(view, i) IN
                            timestamps_of([k \in 1..Len(members) |->
                                              At(time_column.values, members[k])])
             count(i, j) == Cardinality({k \in 1..Len(stamps(i)) :
                                            slot_index(made.grid, stamps(i)[k]) = j})
         IN  IF made.panic THEN [panic |-> TRUE, texts |-> <<>>]
             ELSE [panic |-> FALSE,
                   texts |-> [g \in 1..view_len(view) |->
                                [c \in 1..resolution |->
                                    IF count(g - 1, c - 1) > 0 THEN "U+2588" ELSE " "]]]

\* ------------------------------------------- direct calls of the timeline

\* The span of consecutive instants of the inputs, in ticks.
MaxTime == 7

\* The widest timeline asked for, in characters.
MaxWidth == 2

\* The instants of the inputs: every tick up to MaxTime and one late
\* instant, late enough to spread a timeline over two characters.
Instants == (0..MaxTime) \cup {2 * MaxTime + 1}

\* The values of a timeline column: an instant or no value.
TimeValues == {DateTime(t) : t \in Instants} \cup {NoneValue}

\* The timeline columns of n records read in the order of their instants
\* (some without an instant). The grid and the timelines read a column
\* through its least and greatest instant and the instants of one group,
\* which the order of the records does not change.
TimeColumns(n) ==
    {times \in [1..n -> TimeValues] :
        LET ts == timestamps_of(times) IN \A k \in 1..(Len(ts) - 1) : ts[k] <= ts[k + 1]}

\* The key columns of n records. The key of the first record is "a" (the
\* other choice gives the same groups).
KeyColumns(n) == {keys \in [1..n -> Values] : n = 0 \/ keys[1] = "a"}

\* The store of the timeline calls: a key column and the timeline column.
TimeStore(keys, times) ==
    MaterializedDataFrame_new(<<[name |-> "name", values |-> keys],
                                [name |-> TimeColumn, values |-> times]>>,
                              [j \in 1..Len(keys) |-> RawText(j - 1)]).df

\* A store with a timeline column, grouped by its key column, and one call:
\* the grid of a resolution, the timeline of one group of the view, or the
\* timeline column of the view; nothing has been called yet. The grid is
\* asked for on the stores of one key only (it does not read the keys).
InitTimeline ==
    /\ \E n \in 0..MaxRows : \E keys \in KeyColumns(n), times \in TimeColumns(n) :
            source_df = TimeStore(keys, times)
    /\ group_columns = <<"name">>
    /\ show_in_grouped_mode = <<>>
    /\ state = <<>>
    /\ pc = "probe"
    /\ call = NoCall
    /\ \/ \E resolution \in 1..(MaxWidth * SLOTS_PER_UNIT) :
            /\ Range(column(source_df, "name").values) \subseteq {"a"}
            /\ probe = [op |-> "create_timeline_grid", input |-> [resolution |-> resolution],
                     done |-> FALSE, output |-> <<>>]
       \/ \E resolution \in 1..MaxWidth :
            LET view == group_by(source_df, group_columns, show_in_grouped_mode) IN
            \/ \E index \in 0..(view_len(view) - 1) :
                  probe = [op |-> "timeline",
                           input |-> [view |-> view, index |-> index, resolution |-> resolution],
                           done |-> FALSE, output |-> <<>>]
            \/ probe = [op |-> "create_timeline_column",
                        input |-> [view |-> view, resolution |-> resolution],
                        done |-> FALSE, output |-> <<>>]

\* create_timeline_grid(time_column, resolution)
CallCreateTimelineGrid ==
    /\ probe.op = "create_timeline_grid"
    /\ ~probe.done
    /\ probe' = [probe EXCEPT !.done = TRUE,
                    !.output = create_timeline_grid(column(source_df, TimeColumn).values,
                                                    probe.input.resolution)]
    /\ UNCHANGED <<source_df, group_columns, show_in_grouped_mode, state, pc, call>>

\* df.timeline(index, resolution)
CallTimeline ==
    /\ probe.op = "timeline"
    /\ ~probe.done
    /\ probe' = [probe EXCEPT !.done = TRUE,
                    !.output = timeline(source_df, probe.input.view, probe.input.index,
                                        probe.input.resolution)]
    /\ UNCHANGED <<source_df, group_columns, show_in_grouped_mode, state, pc, call>>

\* timeline::create_timeline_column(source_df, &df, column_name, resolution)
CallCreateTimelineColumn ==
    /\ probe.op = "create_timeline_column"
    /\ ~probe.done
    /\ probe' = [probe EXCEPT !.done = TRUE,
                    !.output = create_timeline_column(source_df, probe.input.view, TimeColumn,
                                                      probe.input.resolution)]
    /\ UNCHANGED <<source_df, group_columns, show_in_grouped_mode, state, pc, call>>

NextTimeline == CallCreateTimelineGrid \/ CallTimeline \/ CallCreateTimelineColumn

SpecTimeline == InitTimeline /\ [][NextTimeline]_vars

\* --------------------------------- direct calls of MaterializedDataFrame::new

\* The column mappings handed to the constructor: the first columns of
\* Attrs (an IndexMap has no two entries of one name), each with its own
\* number of values.
ColumnMappings ==
    UNION {{[k \in 1..n |-> [name |-> Attrs[k], values |-> vals[k]]] :
                vals \in [1..n -> SeqsOf(Values, 0, MaxRows)]} : n \in 0..Len(Attrs)}

\* The raw text lists handed to the constructor.
RawLists == {[j \in 1..n |-> RawText(j - 1)] : n \in 0..MaxRows}

\* A column mapping and a list of raw texts; nothing has been called yet.
InitNew ==
    /\ source_df = <<>>
    /\ group_columns = <<>>
    /\ show_in_grouped_mode = <<>>
    /\ state = <<>>
    /\ pc = "probe"
    /\ call = NoCall
    /\ \E columns \in ColumnMappings, raw_values \in RawLists :
            probe = [op |-> "new", input |-> [columns |-> columns, raw_values |-> raw_values],
                     done |-> FALSE, output |-> <<>>]

\* MaterializedDataFrame::new(columns, raw_values)
CallNew ==
    /\ probe.op = "new"
    /\ ~probe.done
    /\ probe' = [probe EXCEPT !.done = TRUE,
                    !.output = MaterializedDataFrame_new(probe.input.columns,
                                                         probe.input.raw_values)]
    /\ UNCHANGED <<source_df, group_columns, show_in_grouped_mode, state, pc, call>>

NextNew == CallNew

SpecNew == InitNew /\ [][NextNew]_vars

\* True once the constructor has returned or panicked.
NewDone == probe.op = "new" /\ probe.done

\* The numbers of values of the columns handed to the constructor.
GivenCounts == {Len(probe.input.columns[k].values) : k \in 1..Len(probe.input.columns)}

\* C14: the constructor fails on an empty column mapping and on columns of
\* different lengths, so a constructed store has at least one column and
\* all its columns have one length.
C14_NewRejectsRaggedColumns ==
    NewDone =>
        /\ (Len(probe.input.columns) = 0 \/ Cardinality(GivenCounts) > 1) => probe.output.panic
        /\ ~probe.output.panic =>
              /\ Len(probe.output.df.columns) >= 1
              /\ \A k \in 1..Len(probe.output.df.columns) :
                    Len(probe.output.df.columns[k].values) = len(probe.output.df)

\* The constructor has panicked on two columns of different lengths.
C14_Witness ==
    /\ NewDone
    /\ Cardinality(GivenCounts) = 2
    /\ probe.output.panic

\* C15: the constructor fails when the number of raw texts differs from the
\* common column length, so raw(i) is defined exactly for 0..len-1.
C15_NewRejectsRawLengthMismatch ==
    NewDone =>
        /\ (Cardinality(GivenCounts) = 1 /\ Len(probe.input.raw_values) \notin GivenCounts)
              => probe.output.panic
        /\ ~probe.output.panic =>
              DOMAIN probe.output.df.raw_values = 1..len(probe.output.df)

\* C16: every store the constructor accepted has at least one row, so the
\* store of a session has a row and the root view of the navigator has a
\* group.
C16_StoreHasARow ==
    /\ len(source_df) >= 1
    /\ view_len(state[1].table_view_model.df) >= 1

\* --------------------------------------------------- claims on the timeline

\* The instants among the values of the timeline column at the given rows.
InstantsAt(rows) ==
    {v.ts : v \in {x \in {At(column(source_df, TimeColumn).values, i) : i \in rows} :
                      x.kind = "DateTime"}}

\* The instants of the timeline column of the store.
ColumnStamps == InstantsAt(0..(len(source_df) - 1))

\* The least and the greatest of a non-empty set of instants.
Least(S) == CHOOSE x \in S : \A y \in S : x <= y

Greatest(S) == CHOOSE x \in S : \A y \in S : x >= y

\* True once create_timeline_grid has returned or panicked.
GridDone == probe.op = "create_timeline_grid" /\ probe.done

\* C17: over a column with a timestamp and a resolution N >= 2 the grid has
\* N non-decreasing instants, the k-th at min + k (max - min) / (N - 1)
\* (stated without the division), the first at the least and the last at
\* the greatest timestamp of the column.
C17_GridSpansMinToMax ==
    (GridDone /\ ColumnStamps # {} /\ probe.input.resolution >= 2) =>
        LET N    == probe.input.resolution
            grid == probe.output.grid
        IN  /\ ~probe.output.panic
            /\ Len(grid) = N
            /\ \A k \in 0..(N - 2) : At(grid, k) <= At(grid, k + 1)
            /\ \A k \in 0..(N - 1) :
                  (At(grid, k) - Least(ColumnStamps)) * (N - 1)
                      = k * (Greatest(ColumnStamps) - Least(ColumnStamps))
            /\ At(grid, 0) = Least(ColumnStamps)
            /\ At(grid, N - 1) = Greatest(ColumnStamps)

\* The grid indices whose instant is not after ts.
NotAfter(grid, ts) == {k \in 0..(Len(grid) - 1) : At(grid, k) <= ts}

\* C18: the slot of a timestamp of the column is the index of the greatest
\* grid instant that is not after it; such an instant exists (the fallback
\* to 0 is not taken) and the index is within 0..N-1.
C18_SlotIndexIsGreatestNotAfter ==
    (GridDone /\ ~probe.output.panic) =>
        LET grid == probe.output.grid IN
        \A ts \in ColumnStamps :
            LET idx == slot_index(grid, ts)
            IN  /\ NotAfter(grid, ts) # {}
                /\ idx \in 0..(probe.input.resolution - 1)
                /\ idx \in NotAfter(grid, ts)
                /\ \A k \in NotAfter(grid, ts) : At(grid, k) <= At(grid, idx) /\ k <= idx

\* A timestamp lies strictly between two grid instants, neither the first
\* nor the last.
C18_Witness ==
    /\ GridDone
    /\ ~probe.output.panic
    /\ \E ts \in ColumnStamps :
          LET idx == slot_index(probe.output.grid, ts) IN
          /\ 0 < idx
          /\ idx < probe.input.resolution - 1
          /\ At(probe.output.grid, idx) < ts

\* True once DataFrameGroupView::timeline has returned.
TimelineDone == probe.op = "timeline" /\ probe.done

\* The instants of the members of group `index` of a view.
GroupStamps(view, index) == InstantsAt(Range(At(view.group_idx, index)))

\* The grid slots that hold a timestamp of the group the timeline was
\* asked for.
MarkedSlots ==
    LET grid == create_timeline_grid(column(source_df, TimeColumn).values,
                                     probe.input.resolution * SLOTS_PER_UNIT).grid
    IN  {slot_index(grid, ts) : ts \in GroupStamps(probe.input.view, probe.input.index)}

\* The sub-slots (numbered from 1) of character c among the slots `marked`.
SubSlots(marked, c) ==
    {j \in 1..SLOTS_PER_UNIT : (c * SLOTS_PER_UNIT + (j - 1)) \in marked}

\* The sub-slots of character c that hold a timestamp of the group.
OccupiedSubSlots(c) == SubSlots(MarkedSlots, c)

\* The nine fill levels: blank, one eighth to seven eighths, full.
FillLevels ==
    <<" ", "U+258F", "U+258E", "U+258D", "U+258C", "U+258B", "U+258A", "U+2589", "U+2588">>

ColumnDone == probe.op = "create_timeline_column" /\ probe.done

\* A string of n blanks.
Blank(n) == [c \in 1..n |-> " "]

\* C20: a group none of whose members holds a timestamp renders as blanks
\* of the width asked for, by timeline and by create_timeline_column; over
\* a column without any timestamp the grid is empty and every group renders
\* as blanks of that width.
C20_NoTimestampsRenderBlank ==
    /\ (TimelineDone /\ GroupStamps(probe.input.view, probe.input.index) = {})
          => probe.output = Blank(probe.input.resolution)
    /\ (ColumnDone /\ ~probe.output.panic) =>
          \A g \in 1..view_len(probe.input.view) :
              GroupStamps(probe.input.view, g - 1) = {}
                  => probe.output.texts[g] = Blank(probe.input.resolution)
    /\ (GridDone /\ ColumnStamps = {}) =>
          ~probe.output.panic /\ probe.output.grid = <<>>
    /\ (ColumnDone /\ ColumnStamps = {}) =>
          /\ ~probe.output.panic
          /\ Len(probe.output.texts) = view_len(probe.input.view)
          /\ \A g \in 1..view_len(probe.input.view) :
                probe.output.texts[g] = Blank(probe.input.resolution)

\* Of two groups one holds a timestamp and is drawn, the other holds none
\* and is blank, over two characters.
C20_Witness ==
    /\ ColumnDone
    /\ ~probe.output.panic
    /\ probe.input.resolution = 2
    /\ view_len(probe.input.view) = 2
    /\ \E g, h \in 1..2 :
          /\ GroupStamps(probe.input.view, g - 1) = {}
          /\ probe.output.texts[g] = Blank(2)
          /\ probe.output.texts[h] # Blank(2)

\* C21: over a column whose timestamps are all one instant t the grid of a
\* resolution N >= 2 has N instants, all equal to t.
C21_ConstantColumnGridIsConstant ==
    (GridDone /\ Cardinality(ColumnStamps) = 1 /\ probe.input.resolution >= 2) =>
        /\ ~probe.output.panic
        /\ Len(probe.output.grid) = probe.input.resolution
        /\ \A k \in 1..Len(probe.output.grid) : {probe.output.grid[k]} = ColumnStamps

\* The grid of three instants or more over a column that holds one instant,
\* not the epoch, in two records or more.
C21_Witness ==
    /\ GridDone
    /\ ColumnStamps \cap {0} = {}
    /\ Cardinality(ColumnStamps) = 1
    /\ Cardinality({i \in 0..(len(source_df) - 1) :
                       At(column(source_df, TimeColumn).values, i).kind = "DateTime"}) >= 2
    /\ probe.input.resolution >= 3
    /\ Len(probe.output.grid) = probe.input.resolution

\* ----------------------------------------------------------- the colorizer

\* const MAX_COLORS: usize = 16
MAX_COLORS == 16

\* const MIN_INTENSITY: u8 = 128
MIN_INTENSITY == 128

\* const MAX_INTENSITY: u8 = 250
MAX_INTENSITY == 250

\* ColumnValue::Integer(n)
Integer(n) == [kind |-> "Integer", n |-> n]

\* Column::unique: the set of the values of a column.
unique(values) == Range(values)

\* DefaultHasher::new(), value.hash(&mut hasher), hasher.finish(): SipHash-1-3
\* with the keys (0, 0) over the discriminant and the payload of the value,
\* given as the bytes of the u64 from the lowest (hash as u8) to the highest
\* ((hash >> 56) as u8), for the values the columns below are made of.
DefaultHasher_finish(value) ==
    CASE value = NoneValue -> <<145, 101, 237, 201, 247, 84, 215, 85>>
      [] value = Integer(0) -> <<160, 178, 37, 62, 158, 153, 190, 118>>
      [] value = Integer(1) -> <<122, 135, 206, 86, 17, 170, 89, 115>>
      [] value = Integer(2) -> <<188, 228, 30, 157, 126, 216, 247, 234>>
      [] value = Integer(3) -> <<193, 232, 72, 213, 146, 206, 248, 7>>
      [] value = Integer(4) -> <<95, 168, 12, 188, 53, 244, 129, 104>>
      [] value = Integer(5) -> <<28, 235, 80, 239, 36, 106, 29, 183>>
      [] value = Integer(6) -> <<190, 242, 187, 113, 90, 65, 40, 42>>
      [] value = Integer(7) -> <<248, 66, 80, 138, 181, 166, 63, 158>>
      [] value = Integer(8) -> <<207, 33, 92, 195, 49, 214, 238, 211>>
      [] value = Integer(9) -> <<158, 31, 248, 72, 104, 128, 177, 35>>
      [] value = Integer(10) -> <<195, 24, 11, 78, 116, 53, 54, 241>>
      [] value = Integer(11) -> <<18, 36, 250, 203, 85, 110, 165, 144>>
      [] value = Integer(12) -> <<130, 24, 9, 179, 245, 235, 191, 63>>
      [] value = Integer(13) -> <<173, 155, 240, 10, 207, 104, 246, 119>>
      [] value = Integer(14) -> <<218, 234, 136, 37, 212, 18, 143, 20>>
      [] value = Integer(15) -> <<63, 78, 173, 171, 50, 132, 80, 238>>
      [] value = Integer(16) -> <<108, 8, 18, 212, 103, 49, 155, 108>>
      [] value = Integer(17) -> <<234, 210, 158, 25, 13, 210, 241, 16>>
      [] value = Integer(44) -> <<222, 53, 175, 246, 166, 101, 101, 132>>
      [] value = Integer(447) -> <<222, 199, 82, 220, 246, 12, 157, 186>>

\* max!(a, b, c)
max_of(a, b, c) == max(<<a, b, c>>)

\* intensify!(x)
intensify(x) == MIN_INTENSITY + (x % (MAX_INTENSITY - MIN_INTENSITY))

\* colorize_rgb: style::Color::Rgb(r, g, b) from the bytes of the hash.
colorize_rgb(value) ==
    LET hash == DefaultHasher_finish(value) IN
    [r |-> intensify(max_of(hash[1], hash[2], hash[3])),
     g |-> intensify(max_of(hash[4], hash[5], hash[6])),
     b |-> intensify(max_of(hash[7], hash[8], hash[1]))]

\* style::Color::White
White == [r |-> 255, g |-> 255, b |-> 255]

\* colorize_static
colorize_static(value) == White

\* select that counts ColumnValue::None as a value.
select_counting_none(values) ==
    LET unique_values == unique(values) IN
    IF Cardinality(unique_values) \in 2..MAX_COLORS THEN "colorize_rgb" ELSE "colorize_static"

\* colorizer::select: the colorizer of a column, by the number of its
\* distinct values other than ColumnValue::None.
select(values) ==
    LET unique_values == unique(values) \ {NoneValue} IN
    IF Cardinality(unique_values) \in 2..MAX_COLORS THEN "colorize_rgb" ELSE "colorize_static"

\* The call colorize(v) of the function select returned.
colorize(colorizer, value) ==
    IF colorizer = "colorize_rgb" THEN colorize_rgb(value) ELSE colorize_static(value)

\* --------------------------------------------- direct calls of the colorizer

\* The longest column of freely chosen cells.
MaxCells == 3

\* The most distinct values of a column.
MaxDistinct == 17

\* The values of the short columns.
CellValues == {Integer(0), Integer(44), Integer(447), NoneValue}

\* The columns handed to select: every column of up to MaxCells cells over
\* CellValues, and the columns of the integers 0..d-1 for every d up to
\* MaxDistinct, with and without a cell of no value in front.
ColorColumns ==
    SeqsOf(CellValues, 0, MaxCells)
        \cup {[k \in 1..d |-> Integer(k - 1)] : d \in 0..MaxDistinct}
        \cup {<<NoneValue>> \o [k \in 1..d |-> Integer(k - 1)] : d \in 0..MaxDistinct}

\* No cell has been coloured yet.
NoCell == [value |-> NoneValue, color |-> White, drawn |-> FALSE]

\* A column; nothing has been called yet.
InitColor ==
    /\ source_df = <<>>
    /\ group_columns = <<>>
    /\ show_in_grouped_mode = <<>>
    /\ state = <<>>
    /\ pc = "probe"
    /\ call = NoCall
    /\ \E values \in ColorColumns :
            probe = [op |-> "select", input |-> values, done |-> FALSE,
                     output |-> [colorizer |-> "", first |-> NoCell, last |-> NoCell]]

\* let colorize = colorizer::select(column)
CallSelect ==
    /\ probe.op = "select"
    /\ ~probe.done
    /\ probe' = [probe EXCEPT !.done = TRUE, !.output.colorizer = select(probe.input)]
    /\ UNCHANGED <<source_df, group_columns, show_in_grouped_mode, state, pc, call>>

\* colorize(v) for a cell v of the column or a cell of no value.
CallColorize ==
    /\ probe.op = "select"
    /\ probe.done
    /\ \E v \in Range(probe.input) \cup {NoneValue} :
          LET cell == [value |-> v, color |-> colorize(probe.output.colorizer, v),
                       drawn |-> TRUE]
          IN  probe' = [probe EXCEPT
                            !.output.first = IF @.drawn THEN @ ELSE cell,
                            !.output.last  = cell]
    /\ UNCHANGED <<source_df, group_columns, show_in_grouped_mode, state, pc, call>>

NextColor == CallSelect \/ CallColorize

SpecColor == InitColor /\ [][NextColor]_vars

\* True once select has returned.
SelectDone == probe.op = "select" /\ probe.done

\* The distinct values of the column handed to select, no value excluded.
DistinctValues == {v \in Range(probe.input) : v.kind # "None"}

\* C22: with the cells of no value left out of the count, the colorizer
\* select returns gives the one neutral colour to every input (a cell of
\* no value included) when the column has 0, 1 or more than 16 distinct
\* values, and an RGB colour with every channel in 128..250 when it has 2
\* to 16.
C22_SelectPolicy ==
    (SelectDone /\ probe.output.last.drawn) =>
        LET color == probe.output.last.color IN
        IF Cardinality(DistinctValues) \in 2..16
        THEN /\ probe.output.colorizer = "colorize_rgb"
             /\ \A channel \in {color.r, color.g, color.b} : channel \in 128..250
        ELSE color = White

\* A cell of no value has been given an RGB colour in a column of 16
\* distinct values.
C22_Witness ==
    /\ SelectDone
    /\ Cardinality(DistinctValues) = 16
    /\ probe.output.last.drawn
    /\ probe.output.last.value = NoneValue
    /\ probe.output.last.color # White

\* C23: in a column of exactly two distinct values the two values get two
\* distinct colours, and a value gets the same colour on every call.
C23_TwoValuesTwoColors ==
    (/\ SelectDone
     /\ Cardinality(DistinctValues) = 2
     /\ probe.output.first.drawn
     /\ probe.output.first.value \in DistinctValues
     /\ probe.output.last.value \in DistinctValues) =>
        /\ probe.output.first.value = probe.output.last.value
              => probe.output.first.color = probe.output.last.color
        /\ probe.output.first.value # probe.output.last.value
              => probe.output.first.color # probe.output.last.color

\* -------------------------------------------------- the start of a session

\* const TIMELINE_WIDTH: u16 = 32
TIMELINE_WIDTH == 32

\* InputSpec::validate: an error for two attributes of one name, for a
\* group_by name and for a show_in_grouped name that is no attribute.
validate(spec) ==
    LET attr_names == Range(spec.attrs) IN
    IF Cardinality(attr_names) # Len(spec.attrs) THEN "spec contains duplicates"
    ELSE IF \E k \in 1..Len(spec.group_by) : spec.group_by[k] \notin attr_names
         THEN "missing grouping attribute"
    ELSE IF \E k \in 1..Len(spec.show_in_grouped) : spec.show_in_grouped[k] \notin attr_names
         THEN "missing attribute requested to show in grouped mode"
    ELSE "Ok"

\* The spec files of the sessions: the attributes name and time (or name
\* twice), and lists over the attributes and a name that is none.
StartSpecs ==
    [attrs           : {<<"name", TimeColumn>>, <<"name", "name">>},
     group_by        : {<<>>, <<"name">>, <<UnknownName>>, <<"name", UnknownName>>},
     show_in_grouped : {<<>>, <<TimeColumn>>, <<UnknownName>>}]

\* The timeline column asked for: none (the empty sequence) or one name.
TimelineOptions == {<<>>, <<TimeColumn>>, <<UnknownName>>}

\* The stores loaded for the sessions: record j holds the instant j.
StartStores ==
    UNION {{TimeStore(keys, [j \in 1..n |-> DateTime(j)]) : keys \in KeyColumns(n)} :
              n \in 0..MaxRows}

\* A spec file, a timeline option and the records of the input; nothing
\* has been read yet.
InitStart ==
    /\ source_df \in StartStores
    /\ \E spec \in StartSpecs, timeline_column \in TimelineOptions :
          /\ group_columns = spec.group_by
          /\ show_in_grouped_mode = spec.show_in_grouped
          /\ probe = [op |-> "start",
                      input |-> [spec |-> spec, timeline_column |-> timeline_column],
                      done |-> FALSE,
                      output |-> [error |-> "", timeline |-> <<>>]]
    /\ state = <<>>
    /\ pc = "config"
    /\ call = NoCall

\* InputSpec::read_from_file: validate, and the error ends the program.
ReadSpec ==
    /\ pc = "config"
    /\ probe.op = "start"
    /\ LET result == validate(probe.input.spec) IN
       /\ pc' = IF result = "Ok" THEN "loaded" ELSE "failed"
       /\ probe' = [probe EXCEPT !.output.error = IF result = "Ok" THEN "" ELSE result]
    /\ UNCHANGED <<source_df, group_columns, show_in_grouped_mode, state, call>>

\* show_dataframe up to its first draw: ViewModel::new groups the store and
\* builds the timeline column when one is asked for.
ShowDataframe ==
    /\ pc = "loaded"
    /\ probe.op = "start"
    /\ state' = ViewModel_new(source_df, group_columns, show_in_grouped_mode)
    /\ probe' = [probe EXCEPT
                    !.done = TRUE,
                    !.output.timeline =
                        IF probe.input.timeline_column = <<>> THEN <<>>
                        ELSE create_timeline_column(
                                source_df,
                                group_by(source_df, group_columns, show_in_grouped_mode),
                                probe.input.timeline_column[1], TIMELINE_WIDTH).texts]
    /\ pc' = "session"
    /\ UNCHANGED <<source_df, group_columns, show_in_grouped_mode, call>>

NextStart == ReadSpec \/ ShowDataframe

SpecStart == InitStart /\ [][NextStart]_vars

\* C24: a group, extra or timeline column name that the store does not
\* have ends the program before the session starts: in a started session
\* every such name is a column of the store.
C24_UnknownColumnIsFatal ==
    (probe.op = "start" /\ pc = "session") =>
        /\ Range(group_columns) \subseteq Range(column_names(source_df))
        /\ Range(show_in_grouped_mode) \subseteq Range(column_names(source_df))
        /\ Range(probe.input.timeline_column) \subseteq Range(column_names(source_df))

\* ------------------------------------------------------ reading the records

\* serde_json::Value: a string, a number (as_i64 is Some for `integral`),
\* null, or an object, a map from its keys to values.
JString(v) == [t |-> "String", s |-> v]

JNumber(n, integral) == [t |-> "Number", n |-> n, integral |-> integral]

JNull == [t |-> "Null"]

JObject(fields) == [t |-> "Object", o |-> fields]

\* ColumnValue::String(s)
String(v) == [kind |-> "String", s |-> v]

\* name.split('.') for the attribute names of the specs below.
split(name) ==
    CASE name = "s"   -> <<"s">>
      [] name = "a.b" -> <<"a", "b">>

\* DateTime::parse_from_rfc3339(v) and with_timezone(&Utc), as the tick of
\* the instant, for the strings of the records below; an error for others.
parse_from_rfc3339(v) ==
    CASE v = "1970-01-01T01:00:00+01:00" -> [err |-> FALSE, value |-> DateTime(0)]
      [] OTHER                           -> [err |-> TRUE, value |-> NoneValue]

\* extract_integer_from_json, extract_string_from_json and
\* extract_datetime_from_json, chosen by get_extractor_by_attribute_type.
extractor(attr_type, value) ==
    CASE attr_type = "Integer" ->
            IF value.t = "Number" /\ value.integral
            THEN [err |-> FALSE, value |-> Integer(value.n)]
            ELSE [err |-> TRUE, value |-> NoneValue]
      [] attr_type = "String" ->
            IF value.t = "String"
            THEN [err |-> FALSE, value |-> String(value.s)]
            ELSE [err |-> TRUE, value |-> NoneValue]
      [] attr_type = "DateTime" ->
            IF value.t = "String" THEN parse_from_rfc3339(value.s)
            ELSE [err |-> TRUE, value |-> NoneValue]

RECURSIVE extract_value_lenient(_, _, _, _)
\* extract_value that takes a value its extractor rejects for no value.
extract_value_lenient(element_ref, attr_path, i, attr_type) ==
    IF attr_path[i] \in DOMAIN element_ref
    THEN LET input_value == element_ref[attr_path[i]] IN
         IF i = Len(attr_path)
         THEN [err |-> FALSE, value |-> extractor(attr_type, input_value).value]
         ELSE IF input_value.t = "Object"
              THEN extract_value_lenient(input_value.o, attr_path, i + 1, attr_type)
              ELSE [err |-> FALSE, value |-> NoneValue]
    ELSE [err |-> FALSE, value |-> NoneValue]

RECURSIVE extract_value(_, _, _, _)
\* The inner loop of extract_column from path element i (1-based) on: the
\* extractor's result at the end of the path, a step into an object, and
\* ColumnValue::None where the key is missing or the value is no object.
extract_value(element_ref, attr_path, i, attr_type) ==
    IF attr_path[i] \in DOMAIN element_ref
    THEN LET input_value == element_ref[attr_path[i]] IN
         IF i = Len(attr_path) THEN extractor(attr_type, input_value)
         ELSE IF input_value.t = "Object"
              THEN extract_value(input_value.o, attr_path, i + 1, attr_type)
              ELSE [err |-> FALSE, value |-> NoneValue]
    ELSE [err |-> FALSE, value |-> NoneValue]

\* extract_column: the column of one attribute, or the first error.
extract_column(name, attr_type, input) ==
    LET attr_path == split(name)
        results   == [j \in 1..Len(input) |-> extract_value(input[j], attr_path, 1, attr_type)]
    IN  IF \E j \in 1..Len(input) : results[j].err
        THEN [err |-> TRUE, column |-> <<>>]
        ELSE [err |-> FALSE,
              column |-> [name |-> name, values |-> [j \in 1..Len(input) |-> results[j].value]]]

\* to_pretty_json(v): the text of a record.
to_pretty_json(v) == <<"json", v>>

\* read_dataframe after the records are parsed: the columns of the
\* attributes in their order, the raw text of every record, and the store;
\* the first error of a column is returned, a failed assertion of
\* MaterializedDataFrame::new panics.
read_dataframe(input, spec) ==
    LET extracted == [k \in 1..Len(spec.attrs) |->
                        extract_column(spec.attrs[k].name, spec.attrs[k].attr_type, input)]
        raw_values == [j \in 1..Len(input) |-> to_pretty_json(input[j])]
    IN  IF \E k \in 1..Len(spec.attrs) : extracted[k].err
        THEN [err |-> TRUE, panic |-> FALSE, df |-> <<>>]
        ELSE LET made == MaterializedDataFrame_new(
                            [k \in 1..Len(spec.attrs) |-> extracted[k].column], raw_values)
             IN  [err |-> FALSE, panic |-> made.panic, df |-> made.df]

\* ------------------------------------------ direct calls of read_dataframe

\* An object of one field.
Field(key, value) == [k \in {key} |-> value]

\* The records of the inputs: no field; the field s with a string, an
\* instant, an integer, a fraction or null; the field a with an object
\* that holds b, with an empty object, or with an integer.
Records ==
    {<<>>,
     Field("s", JString("hello")),
     Field("s", JString("1970-01-01T01:00:00+01:00")),
     Field("s", JNumber(1, TRUE)),
     Field("s", JNumber(1, FALSE)),
     Field("s", JNull),
     Field("a", JObject(Field("b", JNumber(2, TRUE)))),
     Field("a", JObject(<<>>)),
     Field("a", JNumber(3, TRUE))}

\* InputAttributeSpec
Attr(name, attr_type) == [name |-> name, attr_type |-> attr_type]

\* The attribute lists of the specs.
AttrLists ==
    {<<>>,
     <<Attr("s", "String")>>,
     <<Attr("s", "Integer")>>,
     <<Attr("s", "DateTime")>>,
     <<Attr("a.b", "Integer")>>,
     <<Attr("s", "String"), Attr("a.b", "Integer")>>}

\* The parsed records of an input and a spec; nothing has been called yet.
InitRead ==
    /\ source_df = <<>>
    /\ group_columns = <<>>
    /\ show_in_grouped_mode = <<>>
    /\ state = <<>>
    /\ pc = "probe"
    /\ call = NoCall
    /\ \E input \in SeqsOf(Records, 0, MaxRows), attrs \in AttrLists :
            probe = [op |-> "read_dataframe", input |-> [records |-> input, attrs |-> attrs],
                     done |-> FALSE, output |-> <<>>]

\* read_dataframe(reader, &spec, as_single_object)
CallReadDataframe ==
    /\ probe.op = "read_dataframe"
    /\ ~probe.done
    /\ probe' = [probe EXCEPT !.done = TRUE,
                    !.output = read_dataframe(probe.input.records, probe.input)]
    /\ UNCHANGED <<source_df, group_columns, show_in_grouped_mode, state, pc, call>>

NextRead == CallReadDataframe

SpecRead == InitRead /\ [][NextRead]_vars

\* ------------------------------------------------- claims on read_dataframe

ReadDone == probe.op = "read_dataframe" /\ probe.done

\* Whether record holds a value at the end of the attribute path: the key is
\* there, and for a path of two elements it holds an object with the second.
PathPresent(record, attr_path) ==
    /\ attr_path[1] \in DOMAIN record
    /\ Len(attr_path) = 2 =>
            /\ record[attr_path[1]].t = "Object"
            /\ attr_path[2] \in DOMAIN record[attr_path[1]].o

\* The value at the end of a present path.
PathValue(record, attr_path) ==
    IF Len(attr_path) = 1 THEN record[attr_path[1]]
    ELSE record[attr_path[1]].o[attr_path[2]]

\* The values a column of the type takes, each with the ColumnValue that
\* stands for it uncoerced.
Accepted(attr_type, value) ==
    CASE attr_type = "Integer"  -> value.t = "Number" /\ value.integral
      [] attr_type = "String"   -> value.t = "String"
      [] attr_type = "DateTime" -> value.t = "String" /\ value.s = "1970-01-01T01:00:00+01:00"

Uncoerced(attr_type, value) ==
    CASE attr_type = "Integer"  -> Integer(value.n)
      [] attr_type = "String"   -> String(value.s)
      [] attr_type = "DateTime" -> DateTime(0)

\* Some record holds, at the path of some attribute, a value the
\* attribute's extractor rejects.
SomeValueRejected ==
    \E k \in 1..Len(probe.input.attrs), j \in 1..Len(probe.input.records) :
        LET attr == probe.input.attrs[k] IN
        /\ PathPresent(probe.input.records[j], split(attr.name))
        /\ ~Accepted(attr.attr_type, PathValue(probe.input.records[j], split(attr.name)))

\* C25: loading n records fails as a whole when a present attribute value
\* is rejected by its column's extractor; otherwise (with an attribute to
\* read) it returns a store whose columns and raw sequence have n entries in
\* record order, the value of record j being no value exactly when the
\* attribute path is missing in record j and the uncoerced value otherwise.
C25_LoadIsAllOrNothing ==
    (ReadDone /\ probe.input.attrs # <<>>) =>
        LET records == probe.input.records
            attrs   == probe.input.attrs
            out     == probe.output
        IN  IF SomeValueRejected THEN out.err
            ELSE /\ ~out.err
                 /\ ~out.panic
                 /\ Len(out.df.raw_values) = Len(records)
                 /\ \A j \in 1..Len(records) : out.df.raw_values[j] = to_pretty_json(records[j])
                 /\ Len(out.df.columns) = Len(attrs)
                 /\ \A k \in 1..Len(attrs) :
                        LET values == out.df.columns[k].values IN
                        /\ out.df.columns[k].name = attrs[k].name
                        /\ Len(values) = Len(records)
                        /\ \A j \in 1..Len(records) :
                              LET present == PathPresent(records[j], split(attrs[k].name)) IN
                              /\ (values[j] = NoneValue) <=> ~present
                              /\ present => values[j] = Uncoerced(attrs[k].attr_type,
                                                PathValue(records[j], split(attrs[k].name)))

\* A load of three records that succeeds with a value, a missing key and a
\* path through a value that is no object.
C25_Witness ==
    /\ ReadDone
    /\ ~probe.output.err
    /\ Len(probe.input.records) = 3
    /\ probe.input.attrs = <<Attr("s", "String"), Attr("a.b", "Integer")>>
    /\ probe.output.df.columns[1].values = <<String("hello"), NoneValue, NoneValue>>
    /\ probe.output.df.columns[2].values = <<NoneValue, Integer(2), NoneValue>>
    /\ probe.input.records[3] = Field("a", JNumber(3, TRUE))

\* A load that fails as a whole on the rejected value of its last record.
C25_WitnessFails ==
    /\ ReadDone
    /\ probe.output.err
    /\ Len(probe.input.records) = 3
    /\ probe.input.attrs = <<Attr("s", "Integer")>>
    /\ probe.input.records = <<Field("s", JNumber(1, TRUE)), <<>>, Field("s", JNull)>>

\* ------------------------------------------------- claims on the navigator

\* C26: in every state of a session over a store with a row, every frame
\* of the stack has a view of at least one row and a selection below the
\* view's length, so that move_selected's modulo and raw(selected) of the
\* detail card are defined.
C26_FramesHaveASelectedRow ==
    len(source_df) >= 1 =>
        \A k \in 1..Len(state) :
            /\ view_len(state[k].table_view_model.df) >= 1
            /\ state[k].table_view_model.selected < view_len(state[k].table_view_model.df)

\* C27: row(i) of a group view is aligned with column_names(): as many
\* values as names, the k-th value being the (name, index) accessor at the
\* k-th name, for any group and extra column lists.
C27_GroupRowAlignedWithNames ==
    GroupByDone =>
        \A i \in 0..(view_len(Grouped) - 1) :
            LET names  == view_column_names(source_df, Grouped)
                values == view_row(source_df, Grouped, i)
            IN  /\ Len(values) = Len(names)
                /\ \A k \in 1..Len(names) : values[k] = view_get(source_df, Grouped, names[k], i)

\* C28: the stack never holds more than two states: the Grouped state at
\* the bottom and at most one Filtered state above it; focus() on a
\* Filtered state pushes nothing.
C28_AtMostOneFilteredFrame ==
    /\ Len(state) \in {1, 2}
    /\ state[1].mode = "Grouped"
    /\ \A k \in 2..Len(state) : state[k].mode = "Filtered"
    /\ (call.op = "focus" /\ Before.mode = "Filtered") => Len(state) = Len(call.before)

\* focus() ran on the unfocused Filtered state and left two states.
C28_Witness ==
    /\ call.op = "focus"
    /\ Before.mode = "Filtered"
    /\ ~Before.focused
    /\ Current.focused
    /\ Len(state) = 2

\* C29: from every state of a session a run of consecutive back() calls is
\* handled at most twice, the first unfocusing and the second popping,
\* before back() reports not handled: the third call of a run is never
\* handled, and a call that is not handled leaves the loop.
C29_BackEndsWithinThree ==
    LET first  == back(state)
        second == back(first.state)
        third  == back(second.state)
    IN  /\ ~(first.handled /\ second.handled /\ third.handled)
        /\ (first.handled /\ second.handled) =>
                /\ Current.focused
                /\ first.state = [state EXCEPT ![Len(state)].focused = FALSE]
                /\ second.state = SubSeq(state, 1, Len(state) - 1)
        /\ (call.op = "back" /\ ~call.handled) => pc = "exited"

\* A focused Filtered state with a moved selection: two back() calls are
\* handled and the third is not.
C29_Witness ==
    /\ pc = "running"
    /\ Current.mode = "Filtered"
    /\ Current.focused
    /\ Current.table_view_model.selected > 0
    /\ back(state).handled
    /\ back(back(state).state).handled
    /\ ~back(back(back(state).state).state).handled

\* --------------------------------------------- filter and unknown names

\* C30: filter takes a predicate entry whose name is no column of the store
\* for no constraint: it returns the rows that hold the entries of the
\* store's columns, in order, and the whole store for a predicate of
\* unknown names only.
C30_UnknownNameIsUnconstrained ==
    (probe.op = "filter" /\ probe.done) =>
        LET idx   == probe.output.idx
            known == DOMAIN probe.input \cap StoreNames
        IN  /\ \A k \in 1..(Len(idx) - 1) : idx[k] < idx[k + 1]
            /\ Range(idx) = {i \in 0..(len(source_df) - 1) :
                                \A n \in known : get(source_df, n, i) = probe.input[n]}
            /\ known = {} => idx = [k \in 1..len(source_df) |-> k - 1]

\* A predicate of the unknown name alone kept the three rows of a store.
C30_Witness ==
    /\ probe.op = "filter"
    /\ probe.done
    /\ DOMAIN probe.input = {UnknownName}
    /\ probe.output.idx = <<0, 1, 2>>

====
